---- MODULE Spec2Model ----
(***************************************************************************)
(* Model of robots/planning/trajectories/trapezoidal.py:                   *)
(*   TrapezoidalTrajectory            (exact, interpolating profile)       *)
(*   ApproximateTrapezoidalTrajectory (linear segments, parabolic blends)  *)
(*                                                                         *)
(* One behaviour is the life of one trajectory object: it is constructed   *)
(* from its arguments (or construction raises) and is then evaluated at    *)
(* query times.                                                            *)
(*                                                                         *)
(* Numbers.  The code computes in IEEE doubles.  The model computes in     *)
(* exact extended rationals: a number is a pair <<n, d>> in lowest terms   *)
(* with d >= 0, where <<1,0>> is +inf, <<-1,0>> is -inf and <<0,0>> is     *)
(* NaN, with the IEEE rules for them (x/0, inf-inf, 0*inf, comparisons     *)
(* with NaN are false, sqrt of a negative number is NaN).  Square roots    *)
(* are exact: the constructor arguments are drawn from the inputs whose    *)
(* square roots are rational (see Representable), so that "equal" in a     *)
(* claim is equality and not equality up to rounding.                      *)
(***************************************************************************)
EXTENDS Integers, Sequences, FiniteSets, TLC

VARIABLES
    kind,     \* "none", "exact" or "approx": the class that was instantiated
    status,   \* "none", "ok" (object exists) or "error" (the constructor raised)
    args,     \* the constructor's arguments
    self,     \* the object's attributes (the solved tables), NoObject if none
    ret       \* the last call: [t |-> query, i |-> index, q, dq, ddq], or NoCall

vars == <<kind, status, args, self, ret>>

---------------------------------------------------------------------------
(* Extended rational arithmetic: the float operations of the code.         *)

Sgn(n) == IF n > 0 THEN 1 ELSE IF n < 0 THEN -1 ELSE 0

IAbs(n) == IF n < 0 THEN -n ELSE n

RECURSIVE Gcd(_, _)
Gcd(x, y) == IF y = 0 THEN x ELSE Gcd(y, x % y)

\* n/d in lowest terms, g the greatest common divisor of |n| and |d|
Reduce(n, d, g) == <<(Sgn(d) * n) \div g, IAbs(d) \div g>>

Norm(n, d) ==
    IF d = 1 THEN <<n, 1>>
    ELSE IF d = 0 THEN <<Sgn(n), 0>>
    ELSE Reduce(n, d, Gcd(IAbs(n), IAbs(d)))

NaN  == <<0, 0>>
Zero == <<0, 1>>
One  == <<1, 1>>
Two  == <<2, 1>>
Four == <<4, 1>>
Half == <<1, 2>>

Num(k) == <<k, 1>>

IsNaN(x) == x = NaN
IsInf(x) == x[2] = 0 /\ x[1] # 0
IsFinite(x) == x[2] > 0

Neg(x) == <<-x[1], x[2]>>

Add(x, y) ==
    IF x[2] > 0 /\ y[2] > 0 THEN Norm(x[1] * y[2] + y[1] * x[2], x[2] * y[2])
    ELSE IF IsNaN(x) \/ IsNaN(y) THEN NaN
    ELSE IF IsInf(x) /\ IsInf(y) THEN (IF x = y THEN x ELSE NaN)
    ELSE IF IsInf(x) THEN x
    ELSE y

Sub(x, y) == Add(x, Neg(y))

Mul(x, y) == IF IsNaN(x) \/ IsNaN(y) THEN NaN ELSE Norm(x[1] * y[1], x[2] * y[2])

Div(x, y) ==
    IF IsNaN(x) \/ IsNaN(y) THEN NaN
    ELSE IF IsInf(x) /\ IsInf(y) THEN NaN
    ELSE IF IsInf(x) THEN <<x[1] * (IF y[1] < 0 THEN -1 ELSE 1), 0>>
    ELSE Norm(x[1] * y[2], x[2] * y[1])

Lt(x, y) ==
    IF x[2] > 0 /\ y[2] > 0 THEN x[1] * y[2] < y[1] * x[2]
    ELSE IF IsNaN(x) \/ IsNaN(y) THEN FALSE
    ELSE IF IsInf(x) /\ IsInf(y) THEN x[1] < y[1]
    ELSE IF IsInf(x) THEN x[1] < 0
    ELSE IF IsInf(y) THEN y[1] > 0
    ELSE x[1] * y[2] < y[1] * x[2]

Le(x, y) == IF x = y THEN ~IsNaN(x) ELSE Lt(x, y)
Gt(x, y) == Lt(y, x)
Ge(x, y) == Le(y, x)

Sq(x) == Mul(x, x)

np_abs(x) == <<IAbs(x[1]), x[2]>>

np_sign(x) == IF IsNaN(x) THEN NaN ELSE Num(Sgn(x[1]))

np_minimum(x, y) == IF IsNaN(x) \/ IsNaN(y) THEN NaN ELSE IF Lt(y, x) THEN y ELSE x
np_maximum(x, y) == IF IsNaN(x) \/ IsNaN(y) THEN NaN ELSE IF Gt(y, x) THEN y ELSE x

np_clip(x, lo, hi) == np_minimum(np_maximum(x, lo), hi)

\* Integer square root (floor), by bisection on lo <= r < hi.
RECURSIVE ISqrtIn(_, _, _)
ISqrtIn(n, lo, hi) ==
    IF hi - lo <= 1 THEN lo
    ELSE LET mid == (lo + hi) \div 2
         IN  IF mid * mid <= n THEN ISqrtIn(n, mid, hi) ELSE ISqrtIn(n, lo, mid)

ISqrt(n) == ISqrtIn(n, 0, n + 1)

IsSquare(n) == n >= 0 /\ ISqrt(n) * ISqrt(n) = n

\* The square root is taken exactly when x is the square of a rational.
ExactSqrt(x) == ~IsFinite(x) \/ x[1] < 0 \/ (IsSquare(x[1]) /\ IsSquare(x[2]))

np_sqrt(x) ==
    IF IsNaN(x) \/ x[1] < 0 THEN NaN
    ELSE IF IsInf(x) THEN x
    ELSE <<ISqrt(x[1]), ISqrt(x[2])>>

math_sqrt(x) == np_sqrt(x)

---------------------------------------------------------------------------
(* TrapezoidalTrajectory: construction.                                    *)

\* Keyword arguments are the fields of a record: one that is not passed is
\* no field of it (kwargs.pop(name, None) is None).
Given(a, name) == name \in DOMAIN a

\* An exception, in place of the value a call would have returned.
AssertionError == [error |-> "AssertionError"]
ValueError == [error |-> "ValueError"]
Raised(r) == "error" \in DOMAIN r

NoArgs == [none |-> "args"]
NoObject == [none |-> "object"]
NoCall == [none |-> "call"]

\* The vector <<F(1), ..., F(n)>>, every entry computed once.
RECURSIVE Vec(_, _)
Vec(F(_), n) == IF n = 0 THEN <<>> ELSE Append(Vec(F, n - 1), F(n))

\* A local variable of the code: F's body names the value of x.
Bind(x, F(_)) == F(x)

\* q = np.asarray(q).astype(float)
astype_float(m) == Vec(LAMBDA i : Vec(LAMBDA k : Num(m[i][k]), Len(m[i])), Len(m))

\* np.all over a vector of booleans
np_all(b) == \A k \in 1..Len(b) : b[k]

\* np.argmax: the first index holding the largest value
np_argmax(h) ==
    CHOOSE i \in 1..Len(h) :
        /\ \A k \in 1..Len(h) : Le(h[k], h[i])
        /\ \A k \in 1..(i - 1) : Lt(h[k], h[i])

\* ndarray.max() over all entries of a matrix of finite numbers
ndarray_max(m) ==
    LET entries == {m[i][k] : i \in 1..Len(m), k \in 1..Len(m[1])}
    IN  CHOOSE x \in entries : \A y \in entries : Le(y, x)

\* Variant of the feasibility relation with the acceleration limit on the side
\* of the velocities: h >= ddq_max * |dq0^2 - dq1^2| / 2.
eval_constraint_limit_on_velocities(q0, q1, dq0, dq1, ddq_max) ==
    Vec(LAMBDA k :
        LET h == np_abs(Sub(q1[k], q0[k]))
        IN  Ge(h, Mul(ddq_max, Mul(np_abs(Sub(Sq(dq0[k]), Sq(dq1[k]))), Half))), Len(q0))

eval_constraint(q0, q1, dq0, dq1, ddq_max) ==
    Vec(LAMBDA k :
        LET h == np_abs(Sub(q1[k], q0[k]))
        IN  Ge(Mul(ddq_max, h), Mul(np_abs(Sub(Sq(dq0[k]), Sq(dq1[k]))), Half)), Len(q0))

\* The argument of math.sqrt in the branch where vmax is not reached.
PeakArg(h, dq0, dq1, ddq_max) ==
    Add(Mul(h, ddq_max), Mul(Add(Sq(dq0), Sq(dq1)), Half))

\* The argument of np.sqrt for an axis that does not dictate the timing.
Discriminant(h, dq0, dq1, ddq_max, t) ==
    Sub(Add(Sub(Mul(Sq(ddq_max), Sq(t)), Mul(Mul(Four, ddq_max), h)),
            Mul(Mul(Mul(Two, ddq_max), Add(dq0, dq1)), t)),
        Sq(Sub(dq0, dq1)))

\* Whether the segment's dominant axis reaches dq_max (a coast phase at vmax).
VmaxReached(h, dq0, dq1, dq_max, ddq_max) ==
    Gt(Mul(h, ddq_max), Sub(Sq(dq_max), Mul(Add(Sq(dq0), Sq(dq1)), Half)))

\* Line 173: the duration of a segment whose dominant axis coasts at dq_max.
vmax_duration(h, dq0, dq1, dq_max, ddq_max) ==
    Add(Add(Div(h, dq_max),
            Mul(Div(dq_max, Mul(Two, ddq_max)), Sq(Sub(One, Div(dq0, dq_max))))),
        Mul(Div(dq_max, Mul(Two, ddq_max)), Sq(Sub(One, Div(dq1, dq_max)))))

\* solve, lines 145-179: the timing of the segment, from the axis with the
\* largest displacement.
timing(q0, q1, dq0_in, dq1_in, dq_max, ddq_max) ==
    Bind(Vec(LAMBDA k : np_abs(dq0_in[k]), Len(q0)), LAMBDA dq0 :
    Bind(Vec(LAMBDA k : np_abs(dq1_in[k]), Len(q0)), LAMBDA dq1 :
    Bind(Vec(LAMBDA k : Sub(q1[k], q0[k]), Len(q0)), LAMBDA d :
    Bind(Vec(LAMBDA k : np_abs(d[k]), Len(q0)), LAMBDA h :
    Bind(np_argmax(h), LAMBDA i :
    Bind(VmaxReached(h[i], dq0[i], dq1[i], dq_max, ddq_max), LAMBDA reached :
    Bind(IF reached THEN dq_max
         ELSE math_sqrt(PeakArg(h[i], dq0[i], dq1[i], ddq_max)), LAMBDA vlim_i :
    Bind(Div(Sub(vlim_i, dq0[i]), ddq_max), LAMBDA ta_i :
    Bind(Div(Sub(vlim_i, dq1[i]), ddq_max), LAMBDA td_i :
        [n |-> Len(q0), dq0 |-> dq0, dq1 |-> dq1, h |-> h,
         s |-> Vec(LAMBDA k : np_sign(d[k]), Len(q0)),
         i |-> i, reached |-> reached, vlim_i |-> vlim_i, ta_i |-> ta_i, td_i |-> td_i,
         t |-> IF reached
               THEN vmax_duration(h[i], dq0[i], dq1[i], dq_max, ddq_max)
               ELSE Add(ta_i, td_i)])))))))))

\* Line 185: the coast velocity of an axis that does not dictate the timing.
coast_velocity(h, dq0, dq1, ddq_max, t) ==
    Mul(Half, Sub(Add(Add(dq0, dq1), Mul(ddq_max, t)),
                  np_sqrt(Discriminant(h, dq0, dq1, ddq_max, t))))

solve(q0, q1, dq0_in, dq1_in, dq_max, ddq_max) ==
    Bind(timing(q0, q1, dq0_in, dq1_in, dq_max, ddq_max), LAMBDA m :
        IF ~np_all(eval_constraint(q0, q1, m.dq0, m.dq1, ddq_max))
        THEN AssertionError
        ELSE [t   |-> m.t,
              ta  |-> Vec(LAMBDA k : IF k = m.i THEN m.ta_i ELSE Zero, m.n),
              td  |-> Vec(LAMBDA k : IF k = m.i THEN m.td_i ELSE Zero, m.n),
              dq  |-> Vec(LAMBDA k :
                         Mul(m.s[k],
                             IF k = m.i THEN m.vlim_i
                             ELSE coast_velocity(m.h[k], m.dq0[k], m.dq1[k], ddq_max, m.t)),
                         m.n),
              ddq |-> Vec(LAMBDA k : Mul(m.s[k], ddq_max), m.n)])

\* Variant of the heuristic that compares the direction of travel of all axes
\* together: one reversing axis stops every axis at the waypoint.
heuristic_v0_joint(q, dq_max) ==
    LET N == Len(q)
        M == Len(q[1])
        s == Vec(LAMBDA i : Vec(LAMBDA k : np_sign(Sub(q[i + 1][k], q[i][k])), M), (N - 1))
    IN  Vec(LAMBDA i :
            IF i = 1 \/ i = N THEN Vec(LAMBDA k : Zero, M)
            ELSE Vec(LAMBDA k :
                    IF s[i - 1] = s[i] THEN Mul(s[i - 1][k], dq_max) ELSE Zero, M), N)

\* The heuristic for the velocities at the waypoints (dq is None).
heuristic_v0(q, dq_max) ==
    LET N == Len(q)
        M == Len(q[1])
        s == Vec(LAMBDA i : Vec(LAMBDA k : np_sign(Sub(q[i + 1][k], q[i][k])), M), (N - 1))
    IN  Vec(LAMBDA i :
            IF i = 1 \/ i = N THEN Vec(LAMBDA k : Zero, M)
            ELSE Vec(LAMBDA k :
                    IF s[i - 1][k] = s[i][k] THEN Mul(s[i - 1][k], dq_max) ELSE Zero, M), N)

\* np.cumsum into t[1:], with t[0] = 0
RECURSIVE cumsum_from(_, _, _)
cumsum_from(dt, acc, i) ==
    IF i > Len(dt) THEN <<>>
    ELSE LET x == Add(acc, dt[i]) IN <<x>> \o cumsum_from(dt, x, i + 1)

\* Line 76: the velocity limit when the waypoint velocities are given.
velocity_limit(a, v0) == IF ~Given(a, "dq") THEN Num(a.dq_max) ELSE ndarray_max(v0)

\* Lines 63-75: the velocities at the waypoints.
waypoint_velocities(a, q) ==
    IF ~Given(a, "dq") THEN heuristic_v0(q, Num(a.dq_max)) ELSE astype_float(a.dq)

\* TrapezoidalTrajectory.__init__: the object's attributes, or AssertionError.
TrapezoidalTrajectory_init(a) ==
    Bind(astype_float(a.q), LAMBDA q :
    Bind(waypoint_velocities(a, q), LAMBDA v0 :
    Bind(velocity_limit(a, v0), LAMBDA dq_max :
    Bind(Vec(LAMBDA i : solve(q[i], q[i + 1], v0[i], v0[i + 1], dq_max, Num(a.ddq_max)),
             Len(a.q) - 1), LAMBDA seg :
    Bind(Vec(LAMBDA i : seg[i].t, Len(seg)), LAMBDA dt :
        IF \E i \in 1..Len(seg) : Raised(seg[i])
        THEN AssertionError
        ELSE [q    |-> q,
              nseg |-> Len(seg),
              v0   |-> v0,
              dt   |-> dt,
              t    |-> <<Zero>> \o cumsum_from(dt, Zero, 1),
              ta   |-> Vec(LAMBDA i : seg[i].ta, Len(seg)),
              td   |-> Vec(LAMBDA i : seg[i].td, Len(seg)),
              v    |-> Vec(LAMBDA i : seg[i].dq, Len(seg)),
              a    |-> Vec(LAMBDA i : seg[i].ddq, Len(seg))])))))

---------------------------------------------------------------------------
(* TrapezoidalTrajectory: evaluation.                                      *)

\* numpy's order on floats, in which NaN sorts last
npy_less(x, y) == Lt(x, y) \/ (IsNaN(y) /\ ~IsNaN(x))

Reverse(b) == Vec(LAMBDA j : b[Len(b) + 1 - j], Len(b))

\* np.digitize's check of its bins: 1 increasing, -1 decreasing, 0 neither
RECURSIVE skip_repeated(_, _)
skip_repeated(b, j) == IF j <= Len(b) /\ b[j] = b[1] /\ ~IsNaN(b[1]) THEN skip_repeated(b, j + 1) ELSE j

monotonicity(b) ==
    LET j == skip_repeated(b, 2)
    IN  IF j > Len(b) THEN 1
        ELSE IF Lt(b[1], b[j])
        THEN (IF \E l \in (j + 1)..Len(b) : Gt(b[l - 1], b[l]) THEN 0 ELSE 1)
        ELSE (IF \E l \in (j + 1)..Len(b) : Lt(b[l - 1], b[l]) THEN 0 ELSE -1)

\* np.searchsorted(b, x, side='right'): the bisection numpy runs, 0-based
RECURSIVE searchsorted_right(_, _, _, _)
searchsorted_right(b, x, lo, hi) ==
    IF lo >= hi THEN lo
    ELSE LET mid == lo + ((hi - lo) \div 2)
         IN  IF ~npy_less(x, b[mid + 1])
             THEN searchsorted_right(b, x, mid + 1, hi)
             ELSE searchsorted_right(b, x, lo, mid)

\* np.digitize(x, bins), right=False
\* (it raises ValueError when monotonicity(bins) = 0: see the callers)
np_digitize(x, bins) ==
    IF monotonicity(bins) = -1
    THEN Len(bins) - searchsorted_right(Reverse(bins), x, 0, Len(bins))
    ELSE searchsorted_right(bins, x, 0, Len(bins))

\* np.clip on an integer index
clip_index(i, lo, hi) == IF i < lo THEN lo ELSE IF i > hi THEN hi ELSE i

\* a boolean mask as a factor
Mask(b) == IF b THEN One ELSE Zero

Last(sq) == sq[Len(sq)]

\* Variant of the clipping that bounds the query time from above only.
clip_time_upper_only(o, t) == np_minimum(t, Last(o.t))

\* Lines 105: the query time after clipping.
clip_time(o, t) == np_clip(t, Zero, Last(o.t))

\* Lines 106-107: the 0-based segment index of a clipped time.
segment_index(o, tc) == clip_index(np_digitize(tc, o.t) - 1, 0, o.nseg - 1)

\* Lines 109-132 for one query time: segment i (0-based), local time tau.
evaluate_segment(o, i, tau) ==
    LET M   == Len(o.q[1])
        dt  == o.dt[i + 1]
        rem == Sub(dt, tau)
        isa == Vec(LAMBDA k : Lt(tau, o.ta[i + 1][k]), M)
        isd == Vec(LAMBDA k : Gt(tau, Sub(dt, o.td[i + 1][k])), M)
        isl == Vec(LAMBDA k : ~isa[k] /\ ~isd[k], M)
    IN  [q   |-> Vec(LAMBDA k :
                    LET q0 == o.q[i + 1][k]
                        q1 == o.q[i + 2][k]
                        v0 == o.v0[i + 1][k]
                        v1 == o.v0[i + 2][k]
                        ta == o.ta[i + 1][k]
                        v  == o.v[i + 1][k]
                        a  == o.a[i + 1][k]
                    IN  Add(Add(Mul(Add(Add(q0, Mul(v0, tau)), Mul(Mul(Half, a), Sq(tau))),
                                    Mask(isa[k])),
                                Mul(Add(Add(q0, Mul(Mul(v0, ta), Half)),
                                        Mul(v, Sub(tau, Mul(ta, Half)))),
                                    Mask(isl[k]))),
                            Mul(Sub(Sub(q1, Mul(v1, rem)), Mul(Mul(Half, a), Sq(rem))),
                                Mask(isd[k]))), M),
         dq  |-> Vec(LAMBDA k :
                    LET v0 == o.v0[i + 1][k]
                        v1 == o.v0[i + 2][k]
                        v  == o.v[i + 1][k]
                        a  == o.a[i + 1][k]
                    IN  Add(Add(Mul(Add(v0, Mul(a, tau)), Mask(isa[k])),
                                Mul(v, Mask(isl[k]))),
                            Mul(Add(v1, Mul(a, rem)), Mask(isd[k]))), M),
         ddq |-> Vec(LAMBDA k :
                    LET a == o.a[i + 1][k]
                    IN  Add(Add(Mul(a, Mask(isa[k])), Mul(Zero, Mask(isl[k]))),
                            Mul(Neg(a), Mask(isd[k]))), M)]

\* TrapezoidalTrajectory.__call__ for a scalar t: what it returns, or ValueError.
TrapezoidalTrajectory_call(o, t) ==
    IF monotonicity(o.t) = 0 THEN ValueError
    ELSE Bind(clip_time(o, t), LAMBDA tc :
         Bind(segment_index(o, tc), LAMBDA i :
         Bind(evaluate_segment(o, i, Sub(tc, o.t[i + 1])), LAMBDA r :
             [t |-> t, i |-> i, q |-> r.q, dq |-> r.dq, ddq |-> r.ddq])))

\* Variant of __call__ that shifts the table of segment start times by the
\* clipped query time, as an in-place `self.t -= t` would.
TrapezoidalTrajectory_call_shifting_t(o, t) ==
    [o EXCEPT !.t = Vec(LAMBDA i : Sub(o.t[i], np_clip(t, Zero, Last(o.t))), Len(o.t))]

\* What __call__ leaves in the object's attributes: it assigns to none of them.
TrapezoidalTrajectory_after_call(o, t) == o

---------------------------------------------------------------------------
(* ApproximateTrapezoidalTrajectory.                                       *)

\* np.amax over a row: the largest entry, NaN if any entry is NaN
RECURSIVE amax_from(_, _, _)
amax_from(row, acc, k) ==
    IF k > Len(row) THEN acc ELSE amax_from(row, np_maximum(acc, row[k]), k + 1)

np_amax(row) == amax_from(row, row[1], 2)

\* np.sum of a vector
RECURSIVE sum_from(_, _)
sum_from(x, k) == IF k > Len(x) THEN Zero ELSE Add(x[k], sum_from(x, k + 1))

np_sum(x) == sum_from(x, 1)

\* np.diff(m, axis=0) of a matrix
np_diff(m) == Vec(LAMBDA i : Vec(LAMBDA k : Sub(m[i + 1][k], m[i][k]), Len(m[1])), Len(m) - 1)

\* Lines 241-244: the segment durations when dt is not given.
durations_from_dq_max(q, dq_max) ==
    LET d == np_diff(q)
    IN  Vec(LAMBDA i : np_amax(Vec(LAMBDA k : Div(np_abs(d[i][k]), dq_max), Len(d[i]))), Len(d))

\* Variant of the blend check that pairs the blends of waypoints j, j+1 with
\* the duration of the segment before waypoint j (dt[:-2] instead of dt[1:-1]).
blends_feasible_previous_segment(tb, dt) ==
    \A j \in 1..(Len(tb) - 1) : Le(Add(tb[j], tb[j + 1]), Mul(Two, dt[j]))

\* Line 253: the blend windows of adjacent waypoints do not overlap.
blends_feasible(tb, dt) ==
    \A j \in 1..(Len(tb) - 1) : Le(Add(tb[j], tb[j + 1]), Mul(Two, dt[j + 1]))

\* Variant of the blend acceleration without the assignment of line 257.
blend_acceleration_unguarded(dv, tb) == Div(dv, tb)

\* Lines 255-257: the acceleration of a blend of duration tb that changes the
\* velocity by dv; rows with tb == 0 are set to 0.
blend_acceleration(dv, tb) == IF tb = Zero THEN Zero ELSE Div(dv, tb)

\* Lines 237-246: the durations of the true segments.
segment_durations(a, q) ==
    IF ~Given(a, "dt") THEN durations_from_dq_max(q, Num(a.dq_max))
    ELSE Vec(LAMBDA i : Num(a.dt[i]), Len(a.dt))

\* ApproximateTrapezoidalTrajectory.__init__: the attributes, or AssertionError.
\* dt_in is dt[1:-1], tb the per-axis array of line 251, self_tb self.tb.
ApproximateTrapezoidalTrajectory_init(a) ==
    Bind(astype_float(a.q), LAMBDA q0 :
    Bind(segment_durations(a, q0), LAMBDA dt_in :
    Bind(<<One>> \o dt_in \o <<One>>, LAMBDA dt :
    Bind(<<q0[1]>> \o q0 \o <<q0[Len(q0)]>>, LAMBDA q :
    Bind(Vec(LAMBDA i :
             Vec(LAMBDA k : Div(Sub(q[i + 1][k], q[i][k]), dt[i]), Len(q0[1])),
             Len(q0) + 1), LAMBDA dq :
    Bind(np_diff(dq), LAMBDA ddiff :
    Bind(Vec(LAMBDA i :
             Vec(LAMBDA k : Div(np_abs(ddiff[i][k]), Num(a.ddq_max)), Len(q0[1])),
             Len(q0)), LAMBDA tb :
    Bind(Vec(LAMBDA i : np_amax(tb[i]), Len(q0)), LAMBDA self_tb :
    Bind(<<Zero>> \o cumsum_from(dt_in, Zero, 1), LAMBDA t :
        IF ~blends_feasible(self_tb, dt)
        THEN AssertionError
        ELSE [q   |-> q,
              dq  |-> dq,
              tb  |-> self_tb,
              ddq |-> Vec(LAMBDA i :
                         Vec(LAMBDA k : blend_acceleration(ddiff[i][k], self_tb[i]),
                             Len(q0[1])), Len(q0)),
              t   |-> t,
              start_time |-> Mul(Neg(tb[1][1]), Half),
              total_time |-> Add(Add(Mul(tb[1][1], Half), np_sum(dt_in)),
                                 Mul(tb[Len(q0)][1], Half)),
              bins |-> Vec(LAMBDA j :
                          Add(t[j], Sub(dt_in[j], Mul(self_tb[j + 1], Half))),
                          Len(q0) - 1)])))))))))

\* Line 286: the query time after clipping.
approx_clip_time(o, t) == np_clip(t, Mul(Neg(o.tb[1]), Half), o.total_time)

\* Lines 289-304 for one clipped query time t and waypoint index i (0-based).
evaluate_blend(o, i, t) ==
    LET M   == Len(o.q[1])
        T   == o.t[i + 1]
        tb  == o.tb[i + 1]
        isb == Ge(t, Sub(T, Mul(tb, Half))) /\ Le(t, Add(T, Mul(tb, Half)))
        rel == Sub(t, T)
    IN  [q   |-> Vec(LAMBDA k :
                    Add(Mul(Add(Add(o.q[i + 2][k], Mul(o.dq[i + 1][k], rel)),
                                Mul(Mul(Half, o.ddq[i + 1][k]),
                                    Sq(Add(rel, Mul(tb, Half))))),
                            Mask(isb)),
                        Mul(Add(o.q[i + 2][k], Mul(o.dq[i + 2][k], rel)), Mask(~isb))), M),
         dq  |-> Vec(LAMBDA k :
                    Add(Mul(Add(o.dq[i + 1][k],
                                Mul(o.ddq[i + 1][k], Add(rel, Mul(tb, Half)))),
                            Mask(isb)),
                        Mul(o.dq[i + 2][k], Mask(~isb))), M),
         ddq |-> Vec(LAMBDA k :
                    Add(Mul(o.ddq[i + 1][k], Mask(isb)), Mul(Zero, Mask(~isb))), M)]

\* ApproximateTrapezoidalTrajectory.__call__ for a scalar t.
ApproximateTrapezoidalTrajectory_call(o, t) ==
    IF monotonicity(o.bins) = 0 THEN ValueError
    ELSE Bind(approx_clip_time(o, t), LAMBDA tc :
         Bind(np_digitize(tc, o.bins), LAMBDA i :
         Bind(evaluate_blend(o, i, tc), LAMBDA r :
             [t |-> t, i |-> i, q |-> r.q, dq |-> r.dq, ddq |-> r.ddq])))

\* What __call__ leaves in the object's attributes: it assigns to none of them.
ApproximateTrapezoidalTrajectory_after_call(o, t) == o

---------------------------------------------------------------------------
(* The arguments the objects are constructed from, and the query times.    *)

Coordinates == 0..2   \* the values of waypoint coordinates
MaxVel == 2       \* dq_max is 1..MaxVel
MaxAcc == 2       \* ddq_max is 1..MaxAcc

\* <<number of waypoints, number of axes>>
Shapes == {<<2, 1>>, <<3, 1>>, <<2, 2>>, <<3, 2>>}

\* explicit waypoint velocities and explicit durations are given to
\* single-axis trajectories
ExplicitShapes == {<<2, 1>>, <<3, 1>>}
ExplicitVelocities == {-1, 0, 1}
ApproxShapes == {<<2, 1>>, <<3, 1>>, <<2, 2>>}
Durations == {1, 2}

Matrices(shape, values) == [1..shape[1] -> [1..shape[2] -> values]]

Waypoints(shapes) == UNION {Matrices(sh, Coordinates) : sh \in shapes}

\* Every square root that solve takes for the segment with timing m is
\* rational (a segment that fails the assertion of line 158 takes none).
RepresentableSegment(m, q0, q1, A) ==
    \/ ~np_all(eval_constraint(q0, q1, m.dq0, m.dq1, A))
    \/ /\ m.reached \/ ExactSqrt(PeakArg(m.h[m.i], m.dq0[m.i], m.dq1[m.i], A))
       /\ \A k \in 1..m.n :
             k # m.i => ExactSqrt(Discriminant(m.h[k], m.dq0[k], m.dq1[k], A, m.t))

Representable(a) ==
    \A q \in {astype_float(a.q)} : \A v0 \in {waypoint_velocities(a, q)} :
        \A dq_max \in {velocity_limit(a, v0)} : \A i \in 1..(Len(q) - 1) :
            RepresentableSegment(
                timing(q[i], q[i + 1], v0[i], v0[i + 1], dq_max, Num(a.ddq_max)),
                q[i], q[i + 1], Num(a.ddq_max))

HeuristicArgs ==
    {[q |-> q, dq_max |-> V, ddq_max |-> A] :
        q \in Waypoints(Shapes), V \in 1..MaxVel, A \in 1..MaxAcc}

ExplicitArgs ==
    UNION {{[q |-> q, ddq_max |-> A, dq |-> dq] :
               q \in Matrices(sh, Coordinates), dq \in Matrices(sh, ExplicitVelocities),
               A \in 1..MaxAcc} : sh \in ExplicitShapes}

ExactArgs == {a \in HeuristicArgs \cup ExplicitArgs : Representable(a)}

ApproxArgs ==
    {[q |-> q, dq_max |-> V, ddq_max |-> A] :
        q \in Waypoints(ApproxShapes), V \in 1..MaxVel, A \in 1..MaxAcc}
    \cup
    UNION {{[q |-> q, ddq_max |-> A, dt |-> dt] :
               q \in Matrices(sh, Coordinates), dt \in [1..(sh[1] - 1) -> Durations],
               A \in 1..MaxAcc} : sh \in ExplicitShapes}

\* Query times: a grid of half units around the trajectory, and the times
\* the object itself names.
Grid == {Norm(k, 2) : k \in -1..5}

Finite(S) == {x \in S : IsFinite(x)}

ExactQueryTimes(o) ==
    Grid \cup Finite({o.t[i] : i \in 1..Len(o.t)} \cup {Add(Last(o.t), One)})

ApproxQueryTimes(o) ==
    Grid \cup Finite({o.start_time, o.total_time, Mul(Neg(o.tb[1]), Half),
                      Add(Last(o.t), Mul(Last(o.tb), Half)),
                      Add(o.total_time, One)})

\* The caller samples the trajectory: the first query is any query time, a
\* later one repeats the last instant or moves on to the next query time.
SampleTimes(times, r) ==
    IF r = NoCall THEN times
    ELSE IF Raised(r) THEN {}
    ELSE {r.t} \cup {t \in times : Gt(t, r.t) /\ \A u \in times : Gt(u, r.t) => Le(t, u)}

---------------------------------------------------------------------------
(* The state machine.                                                      *)

Init ==
    /\ kind = "none"
    /\ status = "none"
    /\ args = NoArgs
    /\ self = NoObject
    /\ ret = NoCall

\* traj = TrapezoidalTrajectory(q, dq_max=..., ddq_max=..., dq=...)
NewTrapezoidalTrajectory ==
    /\ status = "none"
    /\ \E a \in ExactArgs : \E o \in {TrapezoidalTrajectory_init(a)} :
          /\ kind' = "exact"
          /\ args' = a
          /\ status' = IF Raised(o) THEN "error" ELSE "ok"
          /\ self' = IF Raised(o) THEN NoObject ELSE o
          /\ ret' = NoCall

\* traj = ApproximateTrapezoidalTrajectory(q, dq_max=..., ddq_max=..., dt=...)
NewApproximateTrapezoidalTrajectory ==
    /\ status = "none"
    /\ \E a \in ApproxArgs : \E o \in {ApproximateTrapezoidalTrajectory_init(a)} :
          /\ kind' = "approx"
          /\ args' = a
          /\ status' = IF Raised(o) THEN "error" ELSE "ok"
          /\ self' = IF Raised(o) THEN NoObject ELSE o
          /\ ret' = NoCall

\* traj(t) on an exact trajectory
CallTrapezoidalTrajectory ==
    /\ kind = "exact" /\ status = "ok"
    /\ \E t \in SampleTimes(ExactQueryTimes(self), ret) :
          /\ ret' = TrapezoidalTrajectory_call(self, t)
          /\ self' = TrapezoidalTrajectory_after_call(self, t)
    /\ UNCHANGED <<kind, status, args>>

\* traj(t) on an approximate trajectory
CallApproximateTrapezoidalTrajectory ==
    /\ kind = "approx" /\ status = "ok"
    /\ \E t \in SampleTimes(ApproxQueryTimes(self), ret) :
          /\ ret' = ApproximateTrapezoidalTrajectory_call(self, t)
          /\ self' = ApproximateTrapezoidalTrajectory_after_call(self, t)
    /\ UNCHANGED <<kind, status, args>>

Next ==
    \/ NewTrapezoidalTrajectory
    \/ NewApproximateTrapezoidalTrajectory
    \/ CallTrapezoidalTrajectory
    \/ CallApproximateTrapezoidalTrajectory

Spec == Init /\ [][Next]_vars

---------------------------------------------------------------------------
(* Properties.                                                             *)

Exact == kind = "exact" /\ status = "ok"
Approx == kind = "approx" /\ status = "ok"
Called == "q" \in DOMAIN ret

Axes(o) == 1..Len(o.q[1])
Segments(o) == 0..(o.nseg - 1)

HasNaN(row) == \E k \in 1..Len(row) : IsNaN(row[k])

\* C1: in every exact trajectory every segment interpolates its two
\* waypoints on every axis: the position its formulas give at local time 0
\* is waypoint i and the position they give at local time dt[i] is
\* waypoint i+1; so a query at a waypoint time returns that waypoint.
C1_SegmentsInterpolate ==
    Exact =>
        /\ \A i \in Segments(self) :
              /\ evaluate_segment(self, i, Zero).q = self.q[i + 1]
              /\ evaluate_segment(self, i, self.dt[i + 1]).q = self.q[i + 2]
        /\ \A j \in 1..Len(self.t) :
              (Called /\ ret.t = self.t[j]) => ret.q = self.q[j]

\* C2: in every exact trajectory the velocity at each waypoint time is the
\* boundary velocity v0 of that waypoint on every axis, seen from the
\* segment that ends there and from the segment that starts there.
C2_BoundaryVelocities ==
    Exact =>
        \A i \in Segments(self) :
            /\ evaluate_segment(self, i, Zero).dq = self.v0[i + 1]
            /\ evaluate_segment(self, i, self.dt[i + 1]).dq = self.v0[i + 2]

\* The heuristic velocity of waypoint i on axis k, as the specification
\* states it, from the integer waypoints of the arguments.
HeuristicVelocity(a, i, k) ==
    IF i = 1 \/ i = Len(a.q) THEN 0
    ELSE IF Sgn(a.q[i][k] - a.q[i - 1][k]) = Sgn(a.q[i + 1][k] - a.q[i][k])
         THEN Sgn(a.q[i][k] - a.q[i - 1][k]) * a.dq_max
         ELSE 0

\* C3: without explicit velocities, v0 of an interior waypoint is, on each
\* axis independently, the signed dq_max when the axis moves in the same
\* direction before and after the waypoint and 0 otherwise; v0 of the first
\* and of the last waypoint is 0 on every axis.
C3_HeuristicVelocities ==
    (Exact /\ ~Given(args, "dq")) =>
        \A i \in 1..Len(args.q) : \A k \in Axes(self) :
            self.v0[i][k] = Num(HeuristicVelocity(args, i, k))

\* C3 witness: an interior waypoint at which one axis keeps its direction
\* (velocity dq_max) while the other reverses (velocity 0).
C3_Witness ==
    /\ Exact /\ ~Given(args, "dq")
    /\ Len(args.q) = 3 /\ Len(args.q[1]) = 2
    /\ args.q[1][1] < args.q[2][1] /\ args.q[2][1] < args.q[3][1]
    /\ args.q[1][2] < args.q[2][2] /\ args.q[3][2] < args.q[2][2]
    /\ self.v0[2] = <<Num(args.dq_max), Zero>>

\* The discriminant of axis k in segment i (0-based) of a constructed exact
\* trajectory, for the duration the segment was given.
SegmentDiscriminant(o, A, i, k) ==
    Discriminant(np_abs(Sub(o.q[i + 2][k], o.q[i + 1][k])),
                 np_abs(o.v0[i + 1][k]), np_abs(o.v0[i + 2][k]), A, o.dt[i + 1])

Dominant(o, i) == np_argmax(Vec(LAMBDA k : np_abs(Sub(o.q[i + 2][k], o.q[i + 1][k])),
                                Len(o.q[1])))

\* C4: construction fails whenever the discriminant of a non-dominant axis
\* is negative: no object exists with such a segment, and no object has an
\* undefined (NaN) coast velocity.
C4_InfeasibilityReported ==
    Exact =>
        \A i \in Segments(self) : \A k \in Axes(self) :
            /\ k # Dominant(self, i) =>
                  ~Lt(SegmentDiscriminant(self, Num(args.ddq_max), i, k), Zero)
            /\ ~IsNaN(self.v[i + 1][k])

ExactFeasible(a) == ~Raised(TrapezoidalTrajectory_init(a))
ApproxFeasible(a) == ~Raised(ApproximateTrapezoidalTrajectory_init(a))

Constructed == status = "ok" /\ ret = NoCall

\* C5: with the other arguments fixed, a construction that succeeds with
\* acceleration limit ddq_max succeeds with every larger limit, for both
\* classes.
C5_FeasibilityMonotone ==
    Constructed =>
        \A A2 \in (args.ddq_max + 1)..(MaxAcc + 1) :
            IF kind = "exact"
            THEN ExactFeasible([args EXCEPT !.ddq_max = A2])
            ELSE ApproxFeasible([args EXCEPT !.ddq_max = A2])

\* C5 witness: an exact trajectory that exists with its acceleration limit and
\* cannot be constructed with a smaller one.
C5_Witness ==
    /\ Exact /\ Constructed
    /\ args.ddq_max > 1
    /\ ~ExactFeasible([args EXCEPT !.ddq_max = 1])

\* min(max(t, lo), hi) on the reals
Clamp(t, lo, hi) ==
    LET m == IF Lt(t, lo) THEN lo ELSE t
    IN  IF Lt(hi, m) THEN hi ELSE m

Result(r) == <<r.q, r.dq, r.ddq>>

\* C6: a query never raises; the exact class returns at t what it returns at
\* min(max(t, 0), t[-1]) with a segment index in 0..nseg-1, the approximate
\* class returns at t what it returns at t clamped to
\* [-tb[0]/2, total_time] with a waypoint index inside its tables.
C6_QueriesAreClamped ==
    Called =>
        /\ ~Raised(ret)
        /\ Exact =>
              /\ ret.i \in 0..(self.nseg - 1)
              /\ LET c == TrapezoidalTrajectory_call(
                              self, Clamp(ret.t, Zero, Last(self.t)))
                 IN  ~Raised(c) /\ Result(c) = Result(ret)
        /\ Approx =>
              /\ ret.i \in 0..(Len(self.t) - 1)
              /\ LET c == ApproximateTrapezoidalTrajectory_call(
                              self, Clamp(ret.t, Mul(Neg(self.tb[1]), Half), self.total_time))
                 IN  ~Raised(c) /\ Result(c) = Result(ret)

\* C6 witness: a query before time 0 of an exact trajectory whose position
\* changes right from the start.
C6_Witness ==
    /\ Exact /\ Called
    /\ Lt(ret.t, Zero)
    /\ evaluate_segment(self, 0, ret.t).q # ret.q

\* The approximate profile as the specification states it, from the
\* arguments: the duration of segment j (between waypoints j and j+1), the
\* velocity in it (rest before the first and after the last waypoint), and
\* the blend duration at waypoint i.
SegDuration(a, j) ==
    IF Given(a, "dt") THEN Num(a.dt[j])
    ELSE np_amax(Vec(LAMBDA k : Div(Num(IAbs(a.q[j + 1][k] - a.q[j][k])), Num(a.dq_max)),
                     Len(a.q[1])))

SegVelocity(a, j, k) ==
    IF j = 0 \/ j = Len(a.q) THEN Zero
    ELSE Div(Num(a.q[j + 1][k] - a.q[j][k]), SegDuration(a, j))

BlendTime(a, i) ==
    np_amax(Vec(LAMBDA k : Div(np_abs(Sub(SegVelocity(a, i, k), SegVelocity(a, i - 1, k))),
                               Num(a.ddq_max)),
                Len(a.q[1])))

BlendsOverlap(a) ==
    \E j \in 1..(Len(a.q) - 1) :
        Gt(Add(BlendTime(a, j), BlendTime(a, j + 1)), Mul(Two, SegDuration(a, j)))

BlendsFit(a) ==
    \A j \in 1..(Len(a.q) - 1) :
        Le(Add(BlendTime(a, j), BlendTime(a, j + 1)), Mul(Two, SegDuration(a, j)))

\* C7: the approximate constructor fails when the blends of two adjacent
\* waypoints overlap (tb[j] + tb[j+1] > 2 dt[j]) and succeeds exactly when
\* tb[j] + tb[j+1] <= 2 dt[j] for every segment; in every object
\* tb[j]/2 + tb[j+1]/2 <= dt[j] and the bins are non-decreasing.
C7_BlendsDoNotOverlap ==
    (kind = "approx" /\ status # "none") =>
        /\ BlendsOverlap(args) => status = "error"
        /\ status = "ok" <=> BlendsFit(args)
        /\ status = "ok" =>
              /\ \A j \in 1..(Len(self.t) - 1) :
                    Le(Add(Mul(self.tb[j], Half), Mul(self.tb[j + 1], Half)),
                       Sub(self.t[j + 1], self.t[j]))
              /\ \A j \in 1..(Len(self.bins) - 1) : Le(self.bins[j], self.bins[j + 1])

\* C7 witness: three waypoints whose first segment has room for its blends
\* and whose second has not, so that the constructor raises.
C7_Witness ==
    /\ kind = "approx" /\ status = "error"
    /\ Len(args.q) = 3
    /\ Le(Add(BlendTime(args, 1), BlendTime(args, 2)), Mul(Two, SegDuration(args, 1)))
    /\ Gt(Add(BlendTime(args, 2), BlendTime(args, 3)), Mul(Two, SegDuration(args, 2)))

AllZero(row) == \A k \in 1..Len(row) : row[k] = Zero

\* C8: an approximate trajectory starts and ends at rest at its end
\* waypoints on every axis: at start_time it is at the first waypoint with
\* zero velocity, at total_time and later at the last with zero velocity.
C8_RestAtEndWaypoints ==
    (Approx /\ Called) =>
        /\ ret.t = self.start_time =>
              (ret.q = self.q[2] /\ AllZero(ret.dq))
        /\ Ge(ret.t, self.total_time) =>
              (ret.q = self.q[Len(self.q) - 1] /\ AllZero(ret.dq))

Negated(m) == Vec(LAMBDA i : Vec(LAMBDA k : -m[i][k], Len(m[i])), Len(m))

\* The arguments of the time-reversed trajectory: the waypoints in reverse
\* order and, when velocities are given, their negatives in reverse order.
ReversedArgs(a) ==
    IF Given(a, "dq")
    THEN [q |-> Reverse(a.q), ddq_max |-> a.ddq_max, dq |-> Negated(Reverse(a.dq))]
    ELSE [a EXCEPT !.q = Reverse(a.q)]

\* C9: the exact trajectory through the reversed waypoints with the negated
\* reversed velocities exists, lasts as long, and is at time T - t where
\* the original is at time t, for every t in [0, T] and every axis.
C9_TimeReversal ==
    (Exact /\ Constructed /\ Representable(ReversedArgs(args))) =>
        LET r == TrapezoidalTrajectory_init(ReversedArgs(args))
            T == Last(self.t)
        IN  /\ ~Raised(r)
            /\ Last(r.t) = T
            /\ \A t \in ExactQueryTimes(self) :
                  (Ge(t, Zero) /\ Le(t, T)) =>
                      TrapezoidalTrajectory_call(r, Sub(T, t)).q
                          = TrapezoidalTrajectory_call(self, t).q

InAccel(o, i, k, tau) == Lt(tau, o.ta[i + 1][k])
InCoast(o, i, k, tau) ==
    Le(o.ta[i + 1][k], tau) /\ Le(tau, Sub(o.dt[i + 1], o.td[i + 1][k]))
InDecel(o, i, k, tau) == Gt(tau, Sub(o.dt[i + 1], o.td[i + 1][k]))

Phases(o, i, k, tau) ==
    {p \in 1..3 : \/ p = 1 /\ InAccel(o, i, k, tau)
                  \/ p = 2 /\ InCoast(o, i, k, tau)
                  \/ p = 3 /\ InDecel(o, i, k, tau)}

\* The local times of segment i among the query times.
LocalTimes(o, i) ==
    {tau \in Grid \cup {o.dt[i + 1]} : Le(Zero, tau) /\ Le(tau, o.dt[i + 1])}

PhasesWellFormed(o, i, k) ==
    /\ Le(Zero, o.ta[i + 1][k])
    /\ Le(Zero, o.td[i + 1][k])
    /\ Le(Add(o.ta[i + 1][k], o.td[i + 1][k]), o.dt[i + 1])

\* C11: in every exact trajectory, for every segment and axis,
\* 0 <= ta, 0 <= td and ta + td <= dt; at every local time exactly one of
\* the phases acceleration, coast, deceleration holds, and a later local
\* time is never in an earlier phase.
C11_PhasesInOrder ==
    Exact =>
        \A i \in Segments(self) : \A k \in Axes(self) :
            /\ PhasesWellFormed(self, i, k)
            /\ \A tau \in LocalTimes(self, i) : Cardinality(Phases(self, i, k, tau)) = 1
            /\ \A t1, t2 \in LocalTimes(self, i) :
                  Lt(t1, t2) =>
                      \A p1 \in Phases(self, i, k, t1) : \A p2 \in Phases(self, i, k, t2) :
                          p1 <= p2

\* From the arguments: the change of velocity of axis k at waypoint i, the
\* time of waypoint j, and whether time t lies in the blend window of
\* waypoint j.
VelocityChange(a, i, k) == Sub(SegVelocity(a, i, k), SegVelocity(a, i - 1, k))

RECURSIVE WaypointTime(_, _)
WaypointTime(a, j) ==
    IF j = 1 THEN Zero ELSE Add(WaypointTime(a, j - 1), SegDuration(a, j - 1))

InBlend(a, j, t) ==
    /\ Le(Sub(WaypointTime(a, j), Mul(BlendTime(a, j), Half)), t)
    /\ Le(t, Add(WaypointTime(a, j), Mul(BlendTime(a, j), Half)))

LargestChange(a, i, k) ==
    \A l \in 1..Len(a.q[1]) : Le(np_abs(VelocityChange(a, i, l)), np_abs(VelocityChange(a, i, k)))

Limited(row, A) == \A k \in 1..Len(row) : Le(np_abs(row[k]), Num(A))

\* C12: in every approximate trajectory the blend acceleration of a
\* waypoint with tb > 0 is within ddq_max on every axis and equals it in
\* magnitude on the axis with the largest velocity change; a waypoint with
\* tb = 0 has zero blend acceleration on every axis; the acceleration
\* evaluated at a query time is within ddq_max and is zero when the time
\* evaluated (the clamped query time) lies in no blend window.
C12_AccelerationLimited ==
    Approx =>
        /\ \A i \in 1..Len(args.q) :
              IF Gt(self.tb[i], Zero)
              THEN /\ Limited(self.ddq[i], args.ddq_max)
                   /\ \A k \in Axes(args) :
                         LargestChange(args, i, k) =>
                             np_abs(self.ddq[i][k]) = Num(args.ddq_max)
              ELSE self.tb[i] = Zero /\ AllZero(self.ddq[i])
        /\ Called =>
              /\ Limited(ret.ddq, args.ddq_max)
              /\ (\A j \in 1..Len(args.q) : ~InBlend(args, j, approx_clip_time(self, ret.t)))
                    => AllZero(ret.ddq)

\* C12 witness: three collinear waypoints at constant speed: the middle one
\* has a blend of zero duration, and the trajectory is queried inside the
\* first blend, where it accelerates at the limit.
C12_Witness ==
    /\ Approx /\ Called
    /\ Len(args.q) = 3
    /\ self.tb[2] = Zero /\ Gt(self.tb[1], Zero)
    /\ InBlend(args, 1, ret.t)
    /\ ret.ddq[1] = Num(args.ddq_max)

\* The velocity limit handed to solve for the object under construction.
SolverLimit == velocity_limit(args, self.v0)

\* C13: an exact trajectory constructed from explicit per-waypoint
\* velocities is well defined: the velocity limit used by the solver is
\* positive and at least the magnitude of every supplied velocity, and every
\* segment duration dt[i] is finite and non-negative.
C13_ExplicitVelocitiesWellDefined ==
    (Exact /\ Given(args, "dq")) =>
        /\ Gt(SolverLimit, Zero)
        /\ \A i \in 1..Len(self.v0) : \A k \in 1..Len(self.v0[i]) :
              Le(np_abs(self.v0[i][k]), SolverLimit)
        /\ \A i \in Segments(self) : IsFinite(self.dt[i + 1]) /\ Ge(self.dt[i + 1], Zero)


====
